---- MODULE Spec2Model ----
(***************************************************************************)
(* Model of src/scraper.py: the page-processing core of a web crawler.     *)
(* Module-level state (scraper_info, simhash_index, robot_parsers), the    *)
(* persistence files, and one program counter per crawl worker stepping    *)
(* through scraper() and the functions it calls.                           *)
(*                                                                         *)
(* Strings that the code inspects character by character (content types,   *)
(* authorities, paths) are sequences of one-character strings.             *)
(***************************************************************************)
EXTENDS Integers, Sequences, FiniteSets, TLC

\* ------------------------------------------------------------------------
\* Bounds of the model
\* ------------------------------------------------------------------------
MaxCalls == 3        \* scraper() calls per run
MaxConcCalls == 2    \* scraper() calls of a concurrent run
MaxRestarts == 1     \* process restarts
MaxLinkCalls == 2    \* scraper() calls of a run on the link pages

Workers == {"w1", "w2"}

\* ------------------------------------------------------------------------
\* Program constants
\* ------------------------------------------------------------------------
MinTokens == 50              \* valid_size < 50
DiversityDen == 5            \* ratio < 0.2, i.e. 5 * distinct < total
SimhashK == 3                \* SimhashIndex([], k=3)
StatusLo == 200              \* range(200, 400)
StatusHi == 400

\* ------------------------------------------------------------------------
\* Character-sequence helpers
\* ------------------------------------------------------------------------
StartsWith(s, p) == Len(p) <= Len(s) /\ SubSeq(s, 1, Len(p)) = p

EndsWith(s, p) == Len(p) <= Len(s) /\ SubSeq(s, Len(s) - Len(p) + 1, Len(s)) = p

\* re.search of a literal: the literal occurs somewhere in s
Contains(s, p) == \E i \in 1..(Len(s) - Len(p) + 1) : SubSeq(s, i, i + Len(p) - 1) = p

\* str.find of one character: the first index, 0 when absent
Find(s, c) ==
  IF \E i \in 1..Len(s) : s[i] = c
    THEN CHOOSE i \in 1..Len(s) : s[i] = c /\ \A j \in 1..(i - 1) : s[j] # c
    ELSE 0

\* the first index of any of the characters, 0 when absent
FindAny(s, cs) ==
  IF \E i \in 1..Len(s) : s[i] \in cs
    THEN CHOOSE i \in 1..Len(s) : s[i] \in cs /\ \A j \in 1..(i - 1) : s[j] \notin cs
    ELSE 0

\* s[i:] with a 1-based i
From(s, i) == SubSeq(s, i, Len(s))

\* s.split('/')
RECURSIVE Split(_)
Split(s) ==
  LET i == Find(s, "/")
  IN  IF i = 0 THEN <<s>> ELSE <<SubSeq(s, 1, i - 1)>> \o Split(From(s, i + 1))

\* '/'.join(segs)
RECURSIVE Join(_)
Join(segs) ==
  IF Len(segs) = 0 THEN << >>
  ELSE IF Len(segs) = 1 THEN segs[1]
  ELSE segs[1] \o <<"/">> \o Join(Tail(segs))

Range(f) == { f[i] : i \in DOMAIN f }

Digits == {"0","1","2","3","4","5","6","7","8","9"}
LowerAlpha == <<"a","b","c","d","e","f","g","h","i","j","k","l","m",
                "n","o","p","q","r","s","t","u","v","w","x","y","z">>
UpperAlpha == <<"A","B","C","D","E","F","G","H","I","J","K","L","M",
                "N","O","P","Q","R","S","T","U","V","W","X","Y","Z">>
IsAlpha(c) == c \in Range(LowerAlpha) \/ c \in Range(UpperAlpha)
IsDigit(c) == c \in Digits
AllAlpha(s) == \A i \in 1..Len(s) : IsAlpha(s[i])
AllDigits(s) == \A i \in 1..Len(s) : IsDigit(s[i])

\* str.lower()
LowerChar(c) ==
  IF c \in Range(UpperAlpha)
    THEN LowerAlpha[CHOOSE i \in 1..Len(UpperAlpha) : UpperAlpha[i] = c]
    ELSE c
Lower(s) == [i \in 1..Len(s) |-> LowerChar(s[i])]

S_text == <<"t","e","x","t">>
S_html == <<"h","t","m","l">>
S_http == <<"h","t","t","p">>
S_https == <<"h","t","t","p","s">>
S_ics_suffix == <<".","i","c","s",".","u","c","i",".","e","d","u">>
S_cs_suffix == <<".","c","s",".","u","c","i",".","e","d","u">>
S_inf_suffix == <<".","i","n","f","o","r","m","a","t","i","c","s",".","u","c","i",".","e","d","u">>
S_stat_suffix == <<".","s","t","a","t",".","u","c","i",".","e","d","u">>
S_today_prefix ==
  <<"t","o","d","a","y",".","u","c","i",".","e","d","u","/",
    "d","e","p","a","r","t","m","e","n","t","/",
    "i","n","f","o","r","m","a","t","i","o","n","_",
    "c","o","m","p","u","t","e","r","_","s","c","i","e","n","c","e","s","/">>
S_index == <<"/","i","n","d","e","x",".">>
S_page == <<"/","p","a","g","e","/">>

\* the extensions of extension_pattern in is_valid
Extensions ==
  {
    <<"c","s","s">>, <<"j","s">>, <<"b","m","p">>, <<"g","i","f">>,
    <<"j","p","g">>, <<"j","p","e","g">>, <<"i","c","o">>, <<"p","n","g">>,
    <<"t","i","f">>, <<"t","i","f","f">>, <<"m","i","d">>, <<"m","p","2">>,
    <<"m","p","3">>, <<"m","p","4">>, <<"w","a","v">>, <<"a","v","i">>,
    <<"m","o","v">>, <<"m","p","e","g">>, <<"r","a","m">>, <<"m","4","v">>,
    <<"m","k","v">>, <<"o","g","g">>, <<"o","g","v">>, <<"p","d","f">>,
    <<"p","s">>, <<"e","p","s">>, <<"t","e","x">>, <<"p","p","t">>,
    <<"p","p","t","x">>, <<"d","o","c">>, <<"d","o","c","x">>, <<"x","l","s">>,
    <<"x","l","s","x">>, <<"n","a","m","e","s">>, <<"d","a","t","a">>, <<"d","a","t">>,
    <<"e","x","e">>, <<"b","z","2">>, <<"t","a","r">>, <<"m","s","i">>,
    <<"b","i","n">>, <<"7","z">>, <<"p","s","d">>, <<"d","m","g">>,
    <<"i","s","o">>, <<"a","p","k">>, <<"e","p","u","b">>, <<"d","l","l">>,
    <<"c","n","f">>, <<"t","g","z">>, <<"s","h","a","1">>, <<"t","h","m","x">>,
    <<"m","s","o">>, <<"a","r","f","f">>, <<"r","t","f">>, <<"j","a","r">>,
    <<"c","s","v">>, <<"r">>, <<"p","y">>, <<"r","k","t">>,
    <<"s","s">>, <<"s","a","s">>, <<"j","a","v","a">>, <<"i","n">>,
    <<"s","c","m">>, <<"o","d","c">>, <<"m">>, <<"r","m">>,
    <<"s","m","i","l">>, <<"w","m","v">>, <<"s","w","f">>, <<"w","m","a">>,
    <<"z","i","p">>, <<"r","a","r">>, <<"g","z">> }

\* ------------------------------------------------------------------------
\* URL functions
\* ------------------------------------------------------------------------
SchemeChars == Range(LowerAlpha) \cup Range(UpperAlpha) \cup Digits \cup {"+", "-", "."}

\* The operators below hand intermediate results on as arguments, one step
\* of the parse each.

\* the parse result
ParseResult(scheme, netloc, path, query, fragment) ==
  [scheme |-> scheme, netloc |-> netloc, path |-> path, query |-> query,
   fragment |-> fragment]

\* url.split('?', 1), q the index of the first '?'
ParseQuery(scheme, netloc, rest, fragment, q) ==
  ParseResult(scheme, netloc,
              IF q = 0 THEN rest ELSE SubSeq(rest, 1, q - 1),
              IF q = 0 THEN << >> ELSE From(rest, q + 1),
              fragment)

\* url.split('#', 1), h the index of the first '#'
ParseFragment(scheme, netloc, rest, h) ==
  ParseQuery(scheme, netloc,
             IF h = 0 THEN rest ELSE SubSeq(rest, 1, h - 1),
             IF h = 0 THEN << >> ELSE From(rest, h + 1),
             Find(IF h = 0 THEN rest ELSE SubSeq(rest, 1, h - 1), "?"))

\* the netloc runs to the first of '/', '?', '#', at index d of what follows '//'
ParseNetloc(scheme, rest, hasNet, d) ==
  ParseFragment(scheme,
                IF ~hasNet THEN << >>
                ELSE IF d = 0 THEN From(rest, 3) ELSE SubSeq(rest, 3, d + 1),
                IF ~hasNet THEN rest
                ELSE IF d = 0 THEN << >> ELSE From(rest, d + 2),
                Find(IF ~hasNet THEN rest
                     ELSE IF d = 0 THEN << >> ELSE From(rest, d + 2), "#"))

\* the scheme is what precedes the first ':', at index i, if it starts with a
\* letter and consists of scheme characters
ParseScheme(url, hasScheme, i) ==
  ParseNetloc(IF hasScheme THEN Lower(SubSeq(url, 1, i - 1)) ELSE << >>,
              IF hasScheme THEN From(url, i + 1) ELSE url,
              StartsWith(IF hasScheme THEN From(url, i + 1) ELSE url, <<"/","/">>),
              FindAny(From(IF hasScheme THEN From(url, i + 1) ELSE url, 3), {"/", "?", "#"}))

HasScheme(url, i) ==
  /\ i > 1
  /\ IsAlpha(url[1])
  /\ \A j \in 1..(i - 1) : url[j] \in SchemeChars

\* urllib.parse.urlparse, as used at lines 298, 301, 358 and 391: scheme
\* (lower-cased), netloc, path, query and fragment of a URL string
urlparse(url) == ParseScheme(url, HasScheme(url, Find(url, ":")), Find(url, ":"))

\* urlparse(url).netloc, lines 268, 359 and 392
Authority(url) == urlparse(url).netloc

\* the dot-segment loop of urljoin
RECURSIVE Resolve(_, _)
Resolve(segments, resolved) ==
  IF Len(segments) = 0 THEN resolved
  ELSE IF Head(segments) = <<".",".">>
    THEN Resolve(Tail(segments),
                 IF Len(resolved) = 0 THEN resolved
                 ELSE SubSeq(resolved, 1, Len(resolved) - 1))
  ELSE IF Head(segments) = <<".">>
    THEN Resolve(Tail(segments), resolved)
  ELSE Resolve(Tail(segments), Append(resolved, Head(segments)))

\* segments[1:-1] = filter(None, segments[1:-1])
DropEmptyInterior(segments) ==
  IF Len(segments) <= 2 THEN segments
  ELSE <<segments[1]>>
       \o SelectSeq(SubSeq(segments, 2, Len(segments) - 1), LAMBDA x : x # << >>)
       \o <<segments[Len(segments)]>>

\* base_parts: the segments of the base path without its last one, unless
\* that one is empty
BaseParts(parts) ==
  IF parts[Len(parts)] # << >> THEN SubSeq(parts, 1, Len(parts) - 1) ELSE parts

\* the joined path; urlunparse puts a '/' between the netloc and a path that
\* lacks one
JoinedPath(joined) ==
  IF joined = << >> THEN <<"/">>
  ELSE IF joined[1] # "/" THEN <<"/">> \o joined
  ELSE joined

\* the resolved segments, with '' appended when the last segment was a dot
\* segment
ResolvedPath(segments) ==
  JoinedPath(Join(IF segments[Len(segments)] \in {<<".">>, <<".",".">>}
                    THEN Append(Resolve(segments, << >>), << >>)
                    ELSE Resolve(segments, << >>)))

\* urljoin on the parsed base b and the parsed href u
JoinParsed(b, u, href) ==
  IF href = << >> THEN b
  ELSE IF u.netloc # << >> THEN [u EXCEPT !.scheme = b.scheme]
  ELSE IF u.path = << >>
    THEN [u EXCEPT !.scheme = b.scheme, !.netloc = b.netloc, !.path = b.path,
                   !.query = IF u.query = << >> THEN b.query ELSE u.query]
  ELSE [u EXCEPT !.scheme = b.scheme, !.netloc = b.netloc,
                 !.path = ResolvedPath(
                            IF StartsWith(u.path, <<"/">>)
                              THEN Split(u.path)
                              ELSE DropEmptyInterior(BaseParts(Split(b.path))
                                                     \o Split(u.path)))]

\* urlparse(urljoin(url, extracted_url)), lines 300-301, for an href that
\* has no scheme of its own
urljoin(base, href) == JoinParsed(urlparse(base), urlparse(href), href)

\* quote_plus(path, safe='/') of one character
QuoteChar(c) ==
  IF IsAlpha(c) \/ IsDigit(c) \/ c \in {"_", ".", "-", "~", "/"} THEN <<c>>
  ELSE CASE c = " " -> <<"+">>
         [] c = "+" -> <<"%","2","B">>
         [] c = ":" -> <<"%","3","A">>
         [] c = "@" -> <<"%","4","0">>
         [] c = "=" -> <<"%","3","D">>
         [] c = "&" -> <<"%","2","6">>

RECURSIVE quote_plus(_)
quote_plus(s) ==
  IF Len(s) = 0 THEN << >> ELSE QuoteChar(Head(s)) \o quote_plus(Tail(s))

\* t is <body> optionally followed by one more character, for ".?$"
OptOneMore(t, Body(_)) ==
  \/ Body(t)
  \/ Len(t) >= 1 /\ Body(SubSeq(t, 1, Len(t) - 1))

\* [0-9]{4}<sep>[0-9]{2}
YearMonth(t, sep) ==
  /\ Len(t) = 7
  /\ AllDigits(SubSeq(t, 1, 4)) /\ t[5] = sep /\ AllDigits(SubSeq(t, 6, 7))

\* [0-9]{4}<sep>[0-9]{2}<sep>[0-9]{2}
YearMonthDay(t, sep) ==
  /\ Len(t) = 10
  /\ AllDigits(SubSeq(t, 1, 4)) /\ t[5] = sep /\ AllDigits(SubSeq(t, 6, 7))
  /\ t[8] = sep /\ AllDigits(SubSeq(t, 9, 10))

\* the trap pattern without the alternative /page/[0-9]+.?$
TrapMatch_no_page(t) ==
  \/ OptOneMore(t, LAMBDA x : /\ StartsWith(x, S_index)
                              /\ Len(x) > Len(S_index)
                              /\ AllAlpha(From(x, Len(S_index) + 1)))
  \/ OptOneMore(t, LAMBDA x : Len(x) >= 1 /\ x[1] = "/" /\ YearMonth(Tail(x), "/"))
  \/ OptOneMore(t, LAMBDA x : Len(x) >= 1 /\ x[1] = "/" /\ YearMonthDay(Tail(x), "/"))
  \/ OptOneMore(t, LAMBDA x : Len(x) >= 1 /\ x[1] = "/" /\ YearMonth(Tail(x), "-"))
  \/ OptOneMore(t, LAMBDA x : Len(x) >= 1 /\ x[1] = "/" /\ YearMonthDay(Tail(x), "-"))

\* The pattern of lines 307-309 matches all of t (every alternative ends at $)
TrapMatch(t) ==
  \/ OptOneMore(t, LAMBDA x : /\ StartsWith(x, S_index)
                              /\ Len(x) > Len(S_index)
                              /\ AllAlpha(From(x, Len(S_index) + 1)))
  \/ OptOneMore(t, LAMBDA x : /\ StartsWith(x, S_page)
                              /\ Len(x) > Len(S_page)
                              /\ AllDigits(From(x, Len(S_page) + 1)))
  \/ OptOneMore(t, LAMBDA x : Len(x) >= 1 /\ x[1] = "/" /\ YearMonth(Tail(x), "/"))
  \/ OptOneMore(t, LAMBDA x : Len(x) >= 1 /\ x[1] = "/" /\ YearMonthDay(Tail(x), "/"))
  \/ OptOneMore(t, LAMBDA x : Len(x) >= 1 /\ x[1] = "/" /\ YearMonth(Tail(x), "-"))
  \/ OptOneMore(t, LAMBDA x : Len(x) >= 1 /\ x[1] = "/" /\ YearMonthDay(Tail(x), "-"))

\* the least element of a non-empty set of indexes
Least(S) == CHOOSE k \in S : \A j \in S : k <= j

\* the path with everything from the leftmost match on replaced by '/'
CutAtFirst(path, hits) ==
  IF hits = {} THEN path ELSE SubSeq(path, 1, Least(hits) - 1) \o <<"/">>

\* pattern.sub('/', path), line 310: the leftmost match runs to the end of the
\* path and is replaced by '/'
TrapSub(path) == CutAtFirst(path, { i \in 1..Len(path) : TrapMatch(From(path, i)) })

\* Lines 304-313: quote the path unless it holds a '%', collapse the trap
\* patterns, recompose
Recompose(parsed_url) ==
  Lower(parsed_url.scheme) \o <<":","/","/">> \o Lower(parsed_url.netloc)
  \o TrapSub(IF Find(parsed_url.path, "%") = 0
               THEN quote_plus(parsed_url.path)
               ELSE parsed_url.path)

\* Lines 298-301: the parsed href, joined to the page url when it has no scheme
ParsedLink(url, href, parsed_url) ==
  IF parsed_url.scheme = << >> THEN urljoin(url, href) ELSE parsed_url

\* Lines 297-313 for one href: the canonical URL string
Canonical(url, href) == Recompose(ParsedLink(url, href, urlparse(href)))

\* extract_next_links(url, body): body is given by its <a href> tags, each
\* with its href and whether it has text
extract_next_links(url, tags) ==
  { Canonical(url, tag.href) : tag \in { t \in tags : t.text } }

\* len(path_list) != len(set(path_list))
HasRepeat(path_list) == Len(path_list) # Cardinality(Range(path_list))

\* repetitive_pattern(path)
repetitive_pattern(path) ==
  IF path = << >> THEN FALSE
  ELSE HasRepeat(IF path[Len(path)] = "/"
                   THEN Split(SubSeq(path, 2, Len(path) - 1))
                   ELSE Split(From(path, 2)))

\* the pattern \.(css|js|...).?$ occurs in p
ExtensionSearch(p) ==
  \E i \in 1..Len(p) :
    /\ p[i] = "."
    /\ OptOneMore(From(p, i + 1), LAMBDA x : x \in Extensions)

\* extension_pattern.search(path.lower()), lines 407-416
HasBlockedExtension(path) == ExtensionSearch(Lower(path))

\* url_pattern.search(authority) is None and not startswith(...), lines 396-397
OutOfScope(authority, path) ==
  /\ ~(\/ EndsWith(authority, S_ics_suffix)
       \/ EndsWith(authority, S_cs_suffix)
       \/ EndsWith(authority, S_inf_suffix)
       \/ EndsWith(authority, S_stat_suffix))
  /\ ~StartsWith(authority \o path, S_today_prefix)

\* the checks of is_valid without the extension block-list
StaticChecks_no_extension(parsed_url) ==
  /\ ~OutOfScope(parsed_url.netloc, parsed_url.path)
  /\ parsed_url.scheme \in {S_http, S_https}
  /\ ~repetitive_pattern(parsed_url.path)

\* The checks of is_valid on the parsed URL, lines 395-417
StaticChecks(parsed_url) ==
  /\ ~OutOfScope(parsed_url.netloc, parsed_url.path)
  /\ parsed_url.scheme \in {S_http, S_https}
  /\ ~repetitive_pattern(parsed_url.path)
  /\ ~HasBlockedExtension(parsed_url.path)

\* The checks of is_valid before check_robots_file, lines 391-417
PassesStaticChecks(url) == StaticChecks(urlparse(url))

\* ------------------------------------------------------------------------
\* Inputs: responses handed to scraper(url, resp)
\* ------------------------------------------------------------------------
CT_texthtml == <<"t","e","x","t","/","h","t","m","l">>
CT_xhtml == <<"a","p","p","/","x","h","t","m","l">>
CT_json == <<"a","p","p","/","j","s","o","n">>
CT_missing == << >>
CTypes == {CT_texthtml, CT_xhtml, CT_json, CT_missing}

Statuses == {199, 200, 399, 400}

H_www_ics == <<"w","w","w",".","i","c","s",".","u","c","i",".","e","d","u">>
H_www_cs == <<"w","w","w",".","c","s",".","u","c","i",".","e","d","u">>
PFX_http == <<"h","t","t","p",":","/","/">>
PFX_https == <<"h","t","t","p","s",":","/","/">>

\* the empty string ''
NoUrl == << >>

U_A == PFX_http \o H_www_ics \o <<"/">>
U_B == PFX_http \o H_www_ics \o <<"/","b">>
U_C == PFX_http \o H_www_cs \o <<"/","c">>
U_L == PFX_http \o H_www_ics \o <<"/","l">>

Tag(href, text) == [href |-> href, text |-> text]

\* hrefs found on the pages
L_b == Tag(<<"/","b">>, TRUE)
L_b_query == Tag(<<"b","?","q","=","1">>, TRUE)
L_notext == Tag(<<"/","n">>, FALSE)
L_pdf == Tag(PFX_https \o H_www_cs \o <<"/","c",".","p","d","f">>, TRUE)
L_upper == Tag(<<"H","T","T","P",":","/","/","W","W","W",".","I","C","S",".","U","C","I",".","E","D","U",
                 "/","p","a","g","e","/","3">>, TRUE)
L_repeat == Tag(<<"/","x","/","x">>, TRUE)

\* Fingerprints are the sets of bit positions that are 1
FP_A == {}
FP_B == {1, 2, 3}
FP_C == {1, 2, 3, 4, 5, 6}
FP_D == {11, 12, 13, 14, 15, 16, 17, 18}

Page(url, ntok, ndist, fp, tags) ==
  [url |-> url, ntok |-> ntok, ndist |-> ndist, fp |-> fp, tags |-> tags]

\* ntok / ndist: number of valid tokens and of distinct valid tokens of the
\* page body; fp: Simhash(valid_word_list); tags: the <a href> tags
P_A == Page(U_A, 120, 60, FP_A, {L_b, L_b_query, L_notext})
P_B == Page(U_B, 50, 10, FP_B, {L_repeat})
P_C == Page(U_C, 80, 40, FP_C, {L_upper, L_pdf})
P_short == Page(U_L, 49, 49, FP_D, {L_b})
P_empty == Page(U_L, 0, 0, FP_A, {L_b})
P_repetitive == Page(U_L, 50, 9, FP_D, {L_b})

Pages == {P_A, P_B, P_C, P_short, P_empty, P_repetitive}

Resp(page, raw, status, ctype, body) ==
  [page |-> page, raw |-> raw, status |-> status, ctype |-> ctype, body |-> body]

\* Every page arrives in a well-formed response; one page also arrives with
\* each of the four pre-check inputs varied in turn.
Resps ==
  { Resp(p, TRUE, 200, CT_texthtml, TRUE) : p \in Pages }
  \cup { Resp(P_C, FALSE, 200, CT_texthtml, TRUE), Resp(P_C, TRUE, 200, CT_texthtml, FALSE) }
  \cup { Resp(P_C, TRUE, st, CT_texthtml, TRUE) : st \in Statuses }
  \cup { Resp(P_C, TRUE, 200, ct, TRUE) : ct \in CTypes }

\* The responses of the concurrent runs
ConcResps == { Resp(p, TRUE, 200, CT_texthtml, TRUE) : p \in {P_A, P_B, P_C} }

NoResp == Resp(Page(NoUrl, 0, 0, FP_A, {}), FALSE, 0, CT_missing, FALSE)

\* Pages that differ in their links, with fingerprints far from one another
L_trap == Tag(<<"H","T","T","P",":","/","/","W","W","W",".","I","C","S",".","U","C","I",".","E","D","U","/","p","a","g","e","/","3","/","i","n","d","e","x",".","h","t","m","l">>, TRUE)
L_news2 == Tag(<<"/","n","e","w","s","/","p","a","g","e","/","2">>, TRUE)
L_news3 == Tag(<<"/","n","e","w","s","/","p","a","g","e","/","3">>, TRUE)
L_news10 == Tag(<<"/","n","e","w","s","/","p","a","g","e","/","1","0">>, TRUE)
L_space == Tag(<<"/","a"," ","b">>, TRUE)
L_slashes == Tag(<<"/","a","/","/","b","/","/","c">>, TRUE)
L_docs == Tag(<<"/","d","o","c","s","/","d","o","c","s","/","f","i","l","e",".","h","t","m","l">>, TRUE)
L_out == Tag(<<"h","t","t","p",":","/","/","u","c","i",".","e","d","u","/","x">>, TRUE)
L_ftp == Tag(<<"f","t","p",":","/","/","w","w","w",".","i","c","s",".","u","c","i",".","e","d","u","/","f">>, TRUE)
L_ok == Tag(<<"/","o","k">>, TRUE)
L_s_http == Tag(PFX_http \o H_www_ics \o <<"/","s">>, TRUE)
L_s_https == Tag(PFX_https \o H_www_ics \o <<"/","s">>, TRUE)

LinkPage(i, url, ntok, tags) == Page(url, ntok, 30, { 10 * i + k : k \in 1..4 }, tags)

LP_trap == LinkPage(1, U_A, 60, {L_trap})
LP_news == LinkPage(2, U_B, 60, {L_news2, L_news3, L_news10})
LP_slash == LinkPage(3, U_L, 70, {L_slashes, L_docs, L_space})
LP_scope == LinkPage(4, U_A, 55, {L_out, L_ftp, L_repeat, L_pdf, L_ok, L_b})
LP_scheme == LinkPage(5, U_C, 70, {L_s_http, L_s_https})

LinkPages == {LP_trap, LP_news, LP_slash, LP_scope, LP_scheme}

\* The responses of the runs that exercise link extraction and filtering
LinkResps == { Resp(p, TRUE, 200, CT_texthtml, TRUE) : p \in LinkPages }

\* ------------------------------------------------------------------------
\* State
\* ------------------------------------------------------------------------
VARIABLES
  scraper_info,      \* module global: unique_pages, longest_page_url, longest_page_count
  simhash_index,     \* module global: set of (obj_id, value) entries of the SimhashIndex
  robot_parsers,     \* module global: authority -> parser or "None"
  file_info,         \* scraper_info.txt: absent, empty or holding the dumped scraper_info
  file_index,        \* simhash_index.pkl: absent, empty or holding the dumped index
  file_words,        \* word_frequencies.txt: number of lines
  file_subdomains,   \* subdomain_count.txt: the lines
  log,               \* messages given to logger.error
  pc,                \* per worker: position in scraper()
  cur,               \* per worker: the resp argument of the running call
  reg,               \* per worker: value read by the pending += of add_unique_page
  invalid_page,      \* per worker: first result of calc_content, "unset" before it returns
  todo,              \* per worker: extracted links not yet filtered
  link,              \* per worker: the link is_valid is looking at
  kept,              \* per worker: the links that passed is_valid so far
  ret,               \* per worker: links returned by the last completed call
  outcome,           \* per worker: how the last call ended
  err,               \* per worker: the function an exception left through
  pre,               \* per worker: the shared state when the call started
  hist,              \* pages that got a near-duplicate decision in this run, in order
  io_failed,         \* some open() of a persistence file has failed in this run
  open_failed,       \* per worker: the function whose open() failed in the running call
  increments,        \* completed += 1 of add_unique_page in this run
  fetches,           \* authority -> number of robots.txt fetches in this run
  boot,              \* what init() found and did at the last start
  calls,             \* scraper() calls so far
  restarts           \* restarts so far

shared == <<scraper_info, simhash_index, robot_parsers>>
files == <<file_info, file_index, file_words, file_subdomains>>
locals == <<cur, reg, invalid_page, todo, link, kept, ret, outcome, err, pre>>
ghost == <<hist, io_failed, open_failed, increments, fetches, boot, calls, restarts>>
vars == <<shared, files, log, pc, locals, ghost>>

\* scraper_info = {'unique_pages': 0, 'longest_page_url': '', 'longest_page_count': 0}
InitInfo == [unique_pages |-> 0, longest_page_url |-> NoUrl, longest_page_count |-> 0]

\* SimhashIndex([], k=3)
InitIndex == {}

\* robot_parsers = {}
InitRobots == << >>

Snapshot ==
  [info |-> scraper_info, index |-> simhash_index, robots |-> robot_parsers,
   words |-> file_words, subdomains |-> file_subdomains]

\* A file: whether it exists and the documents written to it
NoFile == [exists |-> FALSE, content |-> << >>]
EmptyFile == [exists |-> TRUE, content |-> << >>]
FileWith(x) == [exists |-> TRUE, content |-> <<x>>]

FreshBoot == [both |-> FALSE, status |-> "fresh", info |-> NoFile, index |-> NoFile]

Init ==
  /\ scraper_info = InitInfo
  /\ simhash_index = InitIndex
  /\ robot_parsers = InitRobots
  /\ file_info = NoFile
  /\ file_index = NoFile
  /\ file_words = 0
  /\ file_subdomains = << >>
  /\ log = {}
  /\ pc = [w \in Workers |-> "idle"]
  /\ cur = [w \in Workers |-> NoResp]
  /\ reg = [w \in Workers |-> 0]
  /\ invalid_page = [w \in Workers |-> "unset"]
  /\ todo = [w \in Workers |-> {}]
  /\ link = [w \in Workers |-> NoUrl]
  /\ kept = [w \in Workers |-> {}]
  /\ ret = [w \in Workers |-> {}]
  /\ outcome = [w \in Workers |-> "none"]
  /\ err = [w \in Workers |-> "none"]
  /\ pre = [w \in Workers |-> Snapshot]
  /\ hist = << >>
  /\ io_failed = FALSE
  /\ open_failed = [w \in Workers |-> "none"]
  /\ increments = 0
  /\ fetches = << >>
  /\ boot = FreshBoot
  /\ calls = 0
  /\ restarts = 0

\* What content validation looks at: the page without its links
Content(p) == [url |-> p.url, ntok |-> p.ntok, ndist |-> p.ndist, fp |-> p.fp]

Quiescent(w) == pc[w] \in {"idle", "done", "raised"}

\* An exception leaves scraper(): nothing after the raising statement runs
Raise(w, fn) ==
  /\ pc' = [pc EXCEPT ![w] = "raised"]
  /\ err' = [err EXCEPT ![w] = fn]
  /\ outcome' = [outcome EXCEPT ![w] = "raised"]

\* open() of a persistence file raises OSError: the except clause logs msg,
\* then the finally clause runs file.close() on the unbound name "file",
\* which raises out of fn
OpenFails(w, fn, msg) ==
  /\ log' = log \cup {msg}
  /\ io_failed' = TRUE
  /\ open_failed' = [open_failed EXCEPT ![w] = fn]
  /\ Raise(w, fn)

\* return extracted_links
Return(w, result, links) ==
  /\ pc' = [pc EXCEPT ![w] = "done"]
  /\ outcome' = [outcome EXCEPT ![w] = result]
  /\ ret' = [ret EXCEPT ![w] = links]

\* ------------------------------------------------------------------------
\* scraper(url, resp): entry and pre-checks
\* ------------------------------------------------------------------------
Call(w, inputs, limit) ==
  /\ Quiescent(w)
  /\ calls < limit
  /\ \E r \in inputs : cur' = [cur EXCEPT ![w] = r]
  /\ pc' = [pc EXCEPT ![w] = "precheck"]
  /\ pre' = [pre EXCEPT ![w] = Snapshot]
  /\ outcome' = [outcome EXCEPT ![w] = "none"]
  /\ err' = [err EXCEPT ![w] = "none"]
  /\ ret' = [ret EXCEPT ![w] = {}]
  /\ invalid_page' = [invalid_page EXCEPT ![w] = "unset"]
  /\ open_failed' = [open_failed EXCEPT ![w] = "none"]
  \* the locals of the new call frame are fresh
  /\ reg' = [reg EXCEPT ![w] = 0]
  /\ todo' = [todo EXCEPT ![w] = {}]
  /\ link' = [link EXCEPT ![w] = NoUrl]
  /\ kept' = [kept EXCEPT ![w] = {}]
  /\ calls' = calls + 1
  /\ UNCHANGED <<shared, files, log, hist, io_failed, increments, fetches, boot, restarts>>

\* the pre-checks with the status test "status >= 200" only
PreCheckFails_no_upper(r) ==
  \/ ~r.raw
  \/ ~(r.status >= StatusLo)
  \/ ~(Contains(r.ctype, S_text) \/ Contains(r.ctype, S_html))
  \/ ~r.body

\* The four early returns of scraper()
PreCheckFails(r) ==
  \/ ~r.raw
  \/ ~(r.status >= StatusLo /\ r.status < StatusHi)
  \/ ~(Contains(r.ctype, S_text) \/ Contains(r.ctype, S_html))
  \/ ~r.body

PreCheck(w) ==
  /\ pc[w] = "precheck"
  /\ IF PreCheckFails(cur[w])
       THEN Return(w, "precheck", {})
       ELSE /\ pc' = [pc EXCEPT ![w] = "calc"]
            /\ UNCHANGED <<ret, outcome>>
  /\ UNCHANGED <<shared, files, log, cur, reg, invalid_page, todo, link, kept, err, pre, ghost>>

\* ------------------------------------------------------------------------
\* calc_content(url, body)
\* ------------------------------------------------------------------------
\* the information test with the ratio compared by <= 0.2
LowInformation_le(p) == p.ntok < MinTokens \/ DiversityDen * p.ndist <= p.ntok

\* valid_size < 50 or (len(set(valid_word_list)) / valid_size) < 0.2
LowInformation(p) == p.ntok < MinTokens \/ DiversityDen * p.ndist < p.ntok

Hamming(a, b) == Cardinality((a \ b) \cup (b \ a))

\* get_near_dups with the distance test d < k in place of d <= k
get_near_dups_strict(index, value) ==
  { e.obj_id : e \in { x \in index : Hamming(x.value, value) < SimhashK } }

\* simhash_index.get_near_dups(simhash_value): the ids of the entries within distance k
get_near_dups(index, value) ==
  { e.obj_id : e \in { x \in index : Hamming(x.value, value) <= SimhashK } }

\* calc_content on a scraper() that counts the page before validating it
CalcTokens_counts_first(w) ==
  /\ pc[w] = "calc"
  /\ scraper_info' = [scraper_info EXCEPT !.unique_pages = @ + 1]
  /\ \E stop_words_ok \in BOOLEAN :
       IF ~stop_words_ok
         THEN /\ Raise(w, "calc_content")
              /\ UNCHANGED invalid_page
         ELSE IF LowInformation(cur[w].page)
           THEN /\ invalid_page' = [invalid_page EXCEPT ![w] = "True"]
                /\ pc' = [pc EXCEPT ![w] = "aup_open"]
                /\ UNCHANGED <<err, outcome>>
           ELSE /\ pc' = [pc EXCEPT ![w] = "query"]
                /\ UNCHANGED <<invalid_page, err, outcome>>
  /\ UNCHANGED <<simhash_index, robot_parsers, files, log, cur, reg, todo, link, kept, ret,
                 pre, ghost>>

\* Lines 196-212: tokenize, read stop_words.txt, information-value test
CalcTokens(w) ==
  /\ pc[w] = "calc"
  /\ \E stop_words_ok \in BOOLEAN :
       IF ~stop_words_ok
         THEN /\ Raise(w, "calc_content")
              /\ UNCHANGED invalid_page
         ELSE IF LowInformation(cur[w].page)
           THEN /\ invalid_page' = [invalid_page EXCEPT ![w] = "True"]
                /\ pc' = [pc EXCEPT ![w] = "aup_open"]
                /\ UNCHANGED <<err, outcome>>
           ELSE /\ pc' = [pc EXCEPT ![w] = "query"]
                /\ UNCHANGED <<invalid_page, err, outcome>>
  /\ UNCHANGED <<shared, files, log, cur, reg, todo, link, kept, ret, pre, ghost>>

\* Lines 215-217: the near-duplicate query
Query(w) ==
  /\ pc[w] = "query"
  /\ IF get_near_dups(simhash_index, cur[w].page.fp) # {}
       THEN /\ invalid_page' = [invalid_page EXCEPT ![w] = "True"]
            /\ pc' = [pc EXCEPT ![w] = "aup_open"]
            /\ hist' = Append(hist, [page |-> Content(cur[w].page), accepted |-> FALSE])
       ELSE /\ pc' = [pc EXCEPT ![w] = "insert"]
            /\ UNCHANGED <<invalid_page, hist>>
  /\ UNCHANGED <<shared, files, log, cur, reg, todo, link, kept, ret, outcome, err, pre,
                 io_failed, open_failed, increments, fetches, boot, calls, restarts>>

\* an add that rebuilds the index from the new entry alone
IndexAdd_rebuild(index, url, value) == {[obj_id |-> url, value |-> value]}

\* simhash_index.add(get_urlhash(url), simhash_object): one entry per
\* (url hash, fingerprint)
IndexAdd(index, url, value) == index \cup {[obj_id |-> url, value |-> value]}

\* update_simhash_index(url, simhash_object), called at line 219.  When open()
\* fails the handler logs and the finally clause closes the unbound name
\* "file", which raises.
update_simhash_index(w) ==
  /\ pc[w] = "insert"
  /\ \E open_ok \in BOOLEAN :
       IF ~open_ok
         THEN /\ OpenFails(w, "update_simhash_index", "update_longest_page")
              /\ UNCHANGED <<simhash_index, file_index, hist, invalid_page>>
         ELSE /\ simhash_index' = IndexAdd(simhash_index, cur[w].page.url, cur[w].page.fp)
              /\ file_index' = FileWith(simhash_index')
              /\ hist' = Append(hist, [page |-> Content(cur[w].page), accepted |-> TRUE])
              /\ invalid_page' = [invalid_page EXCEPT ![w] = "False"]
              /\ pc' = [pc EXCEPT ![w] = "aup_open"]
              /\ UNCHANGED <<log, io_failed, open_failed, err, outcome>>
  /\ UNCHANGED <<scraper_info, robot_parsers, file_info, file_words, file_subdomains,
                 cur, reg, todo, link, kept, ret, pre,
                 increments, fetches, boot, calls, restarts>>

\* ------------------------------------------------------------------------
\* add_unique_page(), called at line 259 (invalid page) or 263 (valid page)
\* ------------------------------------------------------------------------
\* open(..., 'w+') truncates the file; the += first reads the counter
AupOpen(w) ==
  /\ pc[w] = "aup_open"
  /\ \E open_ok \in BOOLEAN :
       IF ~open_ok
         THEN /\ OpenFails(w, "add_unique_page", "add_unique_page")
              /\ UNCHANGED <<file_info, reg>>
         ELSE /\ file_info' = EmptyFile
              /\ reg' = [reg EXCEPT ![w] = scraper_info.unique_pages]
              /\ pc' = [pc EXCEPT ![w] = "aup_store"]
              /\ UNCHANGED <<log, io_failed, open_failed, err, outcome>>
  /\ UNCHANGED <<shared, file_index, file_words, file_subdomains,
                 cur, invalid_page, todo, link, kept, ret, pre,
                 hist, increments, fetches, boot, calls, restarts>>

\* the store of the +=, json.dump, close; then line 260 or line 264
AupStore(w) ==
  /\ pc[w] = "aup_store"
  /\ scraper_info' = [scraper_info EXCEPT !.unique_pages = reg[w] + 1]
  /\ file_info' = FileWith(scraper_info')
  /\ increments' = increments + 1
  /\ IF invalid_page[w] = "True"
       THEN Return(w, "rejected", {})
       ELSE /\ pc' = [pc EXCEPT ![w] = "compare"]
            /\ UNCHANGED <<ret, outcome>>
  /\ UNCHANGED <<simhash_index, robot_parsers, file_index, file_words, file_subdomains,
                 log, cur, reg, invalid_page, todo, link, kept, err, pre,
                 hist, io_failed, open_failed, fetches, boot, calls, restarts>>

\* ------------------------------------------------------------------------
\* Reporting of a valid page, lines 264-270
\* ------------------------------------------------------------------------
\* the comparison of line 265 with >= in place of >
Compare_ge(w) ==
  /\ pc[w] = "compare"
  /\ IF cur[w].page.ntok >= scraper_info.longest_page_count
       THEN pc' = [pc EXCEPT ![w] = "longest"]
       ELSE pc' = [pc EXCEPT ![w] = "words"]
  /\ UNCHANGED <<shared, files, log, locals, ghost>>

\* if page_count > scraper_info['longest_page_count']
Compare(w) ==
  /\ pc[w] = "compare"
  /\ IF cur[w].page.ntok > scraper_info.longest_page_count
       THEN pc' = [pc EXCEPT ![w] = "longest"]
       ELSE pc' = [pc EXCEPT ![w] = "words"]
  /\ UNCHANGED <<shared, files, log, locals, ghost>>

update_longest_page(w) ==
  /\ pc[w] = "longest"
  /\ \E open_ok \in BOOLEAN :
       IF ~open_ok
         THEN /\ OpenFails(w, "update_longest_page", "update_longest_page")
              /\ UNCHANGED <<scraper_info, file_info>>
         ELSE /\ scraper_info' = [scraper_info EXCEPT
                                    !.longest_page_url = cur[w].page.url,
                                    !.longest_page_count = cur[w].page.ntok]
              /\ file_info' = FileWith(scraper_info')
              /\ pc' = [pc EXCEPT ![w] = "words"]
              /\ UNCHANGED <<log, io_failed, open_failed, err, outcome>>
  /\ UNCHANGED <<simhash_index, robot_parsers, file_index, file_words, file_subdomains,
                 cur, reg, invalid_page, todo, link, kept, ret, pre,
                 hist, increments, fetches, boot, calls, restarts>>

update_common_words(w) ==
  /\ pc[w] = "words"
  /\ \E open_ok \in BOOLEAN :
       IF ~open_ok
         THEN /\ OpenFails(w, "update_common_words", "update_common_words")
              /\ UNCHANGED file_words
         ELSE /\ file_words' = file_words + cur[w].page.ntok
              /\ pc' = [pc EXCEPT ![w] = "subdomain"]
              /\ UNCHANGED <<log, io_failed, open_failed, err, outcome>>
  /\ UNCHANGED <<shared, file_info, file_index, file_subdomains,
                 cur, reg, invalid_page, todo, link, kept, ret, pre,
                 hist, increments, fetches, boot, calls, restarts>>

\* authority = urlparse(url).netloc; if authority.endswith('.ics.uci.edu')
update_subdomains(w) ==
  /\ pc[w] = "subdomain"
  /\ IF EndsWith(Authority(cur[w].page.url), S_ics_suffix)
       THEN \E open_ok \in BOOLEAN :
              IF ~open_ok
                THEN /\ OpenFails(w, "update_subdomains", "update_subdomains")
                     /\ UNCHANGED file_subdomains
                ELSE /\ file_subdomains' = Append(file_subdomains, Authority(cur[w].page.url))
                     /\ pc' = [pc EXCEPT ![w] = "extract"]
                     /\ UNCHANGED <<log, io_failed, open_failed, err, outcome>>
       ELSE /\ pc' = [pc EXCEPT ![w] = "extract"]
            /\ UNCHANGED <<file_subdomains, log, io_failed, open_failed, err, outcome>>
  /\ UNCHANGED <<shared, file_info, file_index, file_words,
                 cur, reg, invalid_page, todo, link, kept, ret, pre,
                 hist, increments, fetches, boot, calls, restarts>>

\* ------------------------------------------------------------------------
\* Link extraction and filtering, lines 273-274
\* ------------------------------------------------------------------------
\* extracted_links = extract_next_links(url, body)
Extract(w) ==
  /\ pc[w] = "extract"
  /\ todo' = [todo EXCEPT ![w] = extract_next_links(cur[w].page.url, cur[w].page.tags)]
  /\ kept' = [kept EXCEPT ![w] = {}]
  /\ pc' = [pc EXCEPT ![w] = "filter"]
  /\ UNCHANGED <<shared, files, log, cur, reg, invalid_page, link, ret, outcome, err, pre, ghost>>

\* One iteration of [link for link in extracted_links if is_valid(link)], up
\* to the call of check_robots_file; the set is iterated in any order
Filter(w) ==
  /\ pc[w] = "filter"
  /\ IF todo[w] = {}
       THEN /\ Return(w, "accepted", kept[w])
            /\ UNCHANGED <<todo, link>>
       ELSE \E l \in todo[w] :
              /\ todo' = [todo EXCEPT ![w] = todo[w] \ {l}]
              /\ IF PassesStaticChecks(l)
                   THEN /\ link' = [link EXCEPT ![w] = l]
                        /\ pc' = [pc EXCEPT ![w] = "robots"]
                   ELSE UNCHANGED <<link, pc>>
              /\ UNCHANGED <<ret, outcome>>
  /\ UNCHANGED <<shared, files, log, cur, reg, invalid_page, kept, err, pre, ghost>>

\* ------------------------------------------------------------------------
\* check_robots_file(url)
\* ------------------------------------------------------------------------
\* The value cached for an authority: None, or the RobotFileParser with its
\* rules and whether parse() has run (last_checked is set)
NoParser == [kind |-> "None", rules |-> {}, last_checked |-> FALSE]
Parser(rules) == [kind |-> "rp", rules |-> rules, last_checked |-> TRUE]

\* rp.read() met an HTTP 5xx answer: RobotFileParser.read() handles the
\* HTTPError itself and returns without having parsed anything
Unfed == [kind |-> "rp", rules |-> {}, last_checked |-> FALSE]

\* What rp.read() can leave behind: an exception (unreachable host, undecodable
\* file: None is cached), a parser fed a file with a Disallow rule, a parser
\* that was never fed
ReadOutcomes == {NoParser, Parser({<<"/","b">>}), Unfed}

\* no Disallow prefix matches the path, '/' standing for an empty path
Allows(rp, path) ==
  \A rule \in rp.rules : ~StartsWith(IF path = << >> THEN <<"/">> ELSE path, rule)

\* rp.can_fetch('*', url): False until the file has been read
can_fetch(rp, url) == rp.last_checked /\ Allows(rp, urlparse(url).path)

\* The fetch of line 363 is keyed by the scheme and the authority of the URL
KeyOf(parsed_url) == <<parsed_url.scheme, parsed_url.netloc>>
FetchKey(url) == KeyOf(urlparse(url))

\* Number of robots.txt fetches made for an authority
FetchCount(authority) ==
  LET keys == { k \in DOMAIN fetches : k[2] = authority }
      RECURSIVE Sum(_)
      Sum(ks) == IF ks = {} THEN 0
                 ELSE LET k == CHOOSE x \in ks : TRUE IN fetches[k] + Sum(ks \ {k})
  IN  Sum(keys)

\* if not authority in robot_parsers
RobotsLookup(w) ==
  /\ pc[w] = "robots"
  /\ IF Authority(link[w]) \notin DOMAIN robot_parsers
       THEN pc' = [pc EXCEPT ![w] = "robots_read"]
       ELSE pc' = [pc EXCEPT ![w] = "robots_answer"]
  /\ UNCHANGED <<shared, files, log, locals, ghost>>

\* robot_parsers[authority] = rp
Store(parsers, authority, rp) ==
  [a \in DOMAIN parsers \cup {authority} |-> IF a = authority THEN rp ELSE parsers[a]]

\* one more fetch under key
CountFetch(counts, key) ==
  [k \in DOMAIN counts \cup {key} |->
     IF k = key THEN (IF k \in DOMAIN counts THEN counts[k] + 1 ELSE 1) ELSE counts[k]]

\* rp.read() of scheme://authority/robots.txt and the store into robot_parsers
RobotsRead(w) ==
  /\ pc[w] = "robots_read"
  /\ \E rp \in ReadOutcomes : robot_parsers' = Store(robot_parsers, Authority(link[w]), rp)
  /\ fetches' = CountFetch(fetches, FetchKey(link[w]))
  /\ pc' = [pc EXCEPT ![w] = "robots_answer"]
  /\ UNCHANGED <<scraper_info, simhash_index, files, log, locals,
                 hist, io_failed, open_failed, increments, boot, calls, restarts>>

\* Lines 372-377: a cached None allows, a parser is asked
Permits(rp, url) == IF rp.kind = "None" THEN TRUE ELSE can_fetch(rp, url)

\* Lines 372-377 and the end of is_valid
RobotsAnswer(w) ==
  /\ pc[w] = "robots_answer"
  /\ kept' = [kept EXCEPT ![w] =
                IF Permits(robot_parsers[Authority(link[w])], link[w])
                  THEN kept[w] \cup {link[w]}
                  ELSE kept[w]]
  /\ pc' = [pc EXCEPT ![w] = "filter"]
  /\ UNCHANGED <<shared, files, log, cur, reg, invalid_page, todo, link, ret, outcome,
                 err, pre, ghost>>

\* ------------------------------------------------------------------------
\* Process restart and init()
\* ------------------------------------------------------------------------
\* The process starts again: the module globals are re-created and init()
\* runs.  With both files present it loads scraper_info and then evaluates
\* the undefined name rb at line 46, which raises before simhash_index is
\* assigned.
Restart ==
  /\ restarts < MaxRestarts
  /\ \A w \in Workers : Quiescent(w)
  /\ restarts' = restarts + 1
  /\ LET both == file_info.exists /\ file_index.exists
     IN  /\ boot' = [both |-> both,
                     status |-> IF both THEN "raised" ELSE "returned",
                     info |-> file_info, index |-> file_index]
         /\ scraper_info' = IF both /\ file_info.content # << >>
                              THEN file_info.content[1]
                              ELSE InitInfo
  /\ simhash_index' = InitIndex
  /\ robot_parsers' = InitRobots
  /\ pc' = [w \in Workers |-> "idle"]
  /\ cur' = [w \in Workers |-> NoResp]
  /\ reg' = [w \in Workers |-> 0]
  /\ invalid_page' = [w \in Workers |-> "unset"]
  /\ todo' = [w \in Workers |-> {}]
  /\ link' = [w \in Workers |-> NoUrl]
  /\ kept' = [w \in Workers |-> {}]
  /\ ret' = [w \in Workers |-> {}]
  /\ outcome' = [w \in Workers |-> "none"]
  /\ err' = [w \in Workers |-> "none"]
  /\ pre' = [w \in Workers |->
               [info |-> scraper_info', index |-> InitIndex, robots |-> InitRobots,
                words |-> file_words, subdomains |-> file_subdomains]]
  /\ hist' = << >>
  /\ io_failed' = FALSE
  /\ open_failed' = [w \in Workers |-> "none"]
  /\ increments' = 0
  /\ fetches' = << >>
  /\ UNCHANGED <<files, log, calls>>

\* ------------------------------------------------------------------------
\* Specifications
\* ------------------------------------------------------------------------
Step(w) ==
  \/ PreCheck(w) \/ CalcTokens(w) \/ Query(w) \/ update_simhash_index(w)
  \/ AupOpen(w) \/ AupStore(w) \/ Compare(w) \/ update_longest_page(w)
  \/ update_common_words(w) \/ update_subdomains(w)
  \/ Extract(w) \/ Filter(w) \/ RobotsLookup(w) \/ RobotsRead(w) \/ RobotsAnswer(w)

\* One worker: the calls of scraper() run one at a time
SeqCall(w) == Call(w, Resps, MaxCalls)

Next == SeqCall("w1") \/ Step("w1") \/ Restart

Spec == Init /\ [][Next]_vars

\* The workers of the crawler call scraper() concurrently
ConcCall(w) == Call(w, ConcResps, MaxConcCalls)

NextConc == \E w \in Workers : ConcCall(w) \/ Step(w)

SpecConc == Init /\ [][NextConc]_vars

\* One worker on the pages that differ in their links
LinkCall(w) == Call(w, LinkResps, MaxLinkCalls)

NextLinks == LinkCall("w1") \/ Step("w1")

SpecLinks == Init /\ [][NextLinks]_vars

\* ------------------------------------------------------------------------
\* Properties
\* ------------------------------------------------------------------------
Near(p, q) == Hamming(p.fp, q.fp) <= 3

\* C1, as stated: in a run of one-at-a-time calls with no persistence failure,
\* of two pages that pass the thresholds and whose fingerprints are within
\* distance 3, the later one is always rejected as a near-duplicate, also
\* when the earlier one was itself rejected.
C1_LaterAlwaysRejected ==
  ~io_failed =>
    \A i, j \in 1..Len(hist) :
      (i < j /\ Near(hist[i].page, hist[j].page)) => ~hist[j].accepted

\* C1, amended: in such a run, of two pages that pass the thresholds and
\* whose fingerprints are within distance 3, at most one is accepted, and the
\* later one is rejected whenever the earlier one was accepted.
C1_AtMostOneAccepted ==
  ~io_failed =>
    \A i, j \in 1..Len(hist) :
      (i < j /\ Near(hist[i].page, hist[j].page) /\ hist[i].accepted) => ~hist[j].accepted

\* An accepted page, a near-duplicate of it that was rejected, and a third
\* page near the rejected one that was accepted
C1_Witness ==
  /\ ~io_failed
  /\ Len(hist) = 3
  /\ hist[1].accepted /\ ~hist[2].accepted /\ hist[3].accepted
  /\ Near(hist[1].page, hist[2].page)
  /\ Near(hist[2].page, hist[3].page)

C2_CallEffect ==
  \A w \in Workers :
    /\ invalid_page[w] = "True" => simhash_index = pre[w].index
    /\ invalid_page[w] = "False" =>
         /\ pre[w].index \subseteq simhash_index
         /\ Cardinality(simhash_index) = Cardinality(pre[w].index) + 1

\* C2: a call whose page content validation rejects leaves the near-duplicate
\* index as it was, a call whose page is accepted adds exactly one entry, and
\* no step of a run removes or changes an entry of the index.
C2_IndexInsertOnly ==
  /\ []C2_CallEffect
  /\ [][restarts' = restarts => simhash_index \subseteq simhash_index']_vars

\* A page was rejected as a near-duplicate of an indexed page, and the call
\* has returned
C2_Witness ==
  \E w \in Workers :
    /\ pc[w] = "done"
    /\ invalid_page[w] = "True"
    /\ ~LowInformation(cur[w].page)
    /\ pre[w].index # {}

\* C3, as stated: concurrent add_unique_page calls lose no increment: when no
\* call is between its read and its store of the counter, unique_pages equals
\* the number of completed increments.
C3_NoLostIncrement ==
  (\A w \in Workers : pc[w] # "aup_store") => scraper_info.unique_pages = increments

\* C4, as stated: under concurrent calls no two pages that pass the
\* thresholds and whose fingerprints are within distance 3 are both accepted
\* and both in the index.
C4_QueryInsertSerialized ==
  \A i, j \in 1..Len(hist) :
    (i < j /\ Near(hist[i].page, hist[j].page)) => ~(hist[i].accepted /\ hist[j].accepted)

\* C5, as stated: in every execution the stored longest_page_count never
\* decreases, and the longest-page record is replaced only by a strictly
\* greater count.
C5_LongestNeverDecreases ==
  [][/\ scraper_info'.longest_page_count >= scraper_info.longest_page_count
     /\ (scraper_info'.longest_page_url # scraper_info.longest_page_url
           => scraper_info'.longest_page_count > scraper_info.longest_page_count)]_vars

\* The pre-check inputs that make scraper() return early, read off the
\* response: no raw response, status outside [200, 400), a content type
\* other than the two that indicate HTML or text, no body
FailsPreCheck(r) ==
  \/ ~r.raw
  \/ r.status \notin 200..399
  \/ r.ctype \notin {CT_texthtml, CT_xhtml}
  \/ ~r.body

\* C6: a call that fails a pre-check returns no links and leaves unique_pages,
\* the longest-page record, the word log, the subdomain log, the
\* near-duplicate index and the robots cache unchanged.
C6_PreCheckRejectIsPure ==
  \A w \in Workers :
    (pc[w] \notin {"idle", "precheck"} /\ FailsPreCheck(cur[w])) =>
      /\ pc[w] = "done"
      /\ ret[w] = {}
      /\ Snapshot = pre[w]

\* A response with status 400 was turned away after earlier pages had been
\* counted and indexed
C6_Witness ==
  \E w \in Workers :
    /\ pc[w] = "done"
    /\ cur[w].status = 400
    /\ pre[w].info.unique_pages > 0
    /\ pre[w].index # {}
    /\ pre[w].words > 0

\* C7, as stated: every call whose page gets an accept/reject decision from
\* content validation increments unique_pages by exactly one; a rejected page
\* changes no other statistic and returns no links.
C7_EveryDecisionCounted ==
  \A w \in Workers :
    (pc[w] \in {"done", "raised"} /\ invalid_page[w] # "unset") =>
      /\ scraper_info.unique_pages = pre[w].info.unique_pages + 1
      /\ invalid_page[w] = "True" =>
           /\ scraper_info.longest_page_url = pre[w].info.longest_page_url
           /\ scraper_info.longest_page_count = pre[w].info.longest_page_count
           /\ file_words = pre[w].words
           /\ file_subdomains = pre[w].subdomains
           /\ ret[w] = {}

\* C8, as stated: when open() of the persistence file fails in
\* add_unique_page, update_longest_page or update_simhash_index, no exception
\* leaves the function and the in-memory state still receives the update.
C8_OpenFailureSkipsOnlyTheWrite ==
  \A w \in Workers :
    /\ open_failed[w] \in {"add_unique_page", "update_longest_page", "update_simhash_index"}
         => pc[w] # "raised"
    /\ open_failed[w] = "add_unique_page"
         => scraper_info.unique_pages = pre[w].info.unique_pages + 1
    /\ open_failed[w] = "update_longest_page"
         => /\ scraper_info.longest_page_url = cur[w].page.url
            /\ scraper_info.longest_page_count = cur[w].page.ntok
    /\ open_failed[w] = "update_simhash_index"
         => \E e \in simhash_index : e.value = cur[w].page.fp

\* C9, as stated: after a restart that finds both snapshots, init() completes
\* and restores unique_pages, the longest-page record and the index, and a page
\* whose fingerprint was indexed before the restart is not accepted again.
C9_RestartResumes ==
  (boot.both /\ Len(boot.info.content) > 0 /\ Len(boot.index.content) > 0) =>
    /\ boot.status = "returned"
    /\ (\A w \in Workers : pc[w] = "idle") =>
         /\ scraper_info = boot.info.content[1]
         /\ simhash_index = boot.index.content[1]
    /\ \A i \in 1..Len(hist) :
         hist[i].accepted =>
           \A e \in boot.index.content[1] : e.value # hist[i].page.fp

\* C10, as stated: robots.txt is fetched at most once per authority in a run,
\* also under concurrent queries, and a stored entry is never replaced or
\* removed.
C10_RobotsFetchedOnce ==
  /\ [](\A k \in DOMAIN fetches : FetchCount(k[2]) <= 1)
  /\ [][\A a \in DOMAIN robot_parsers :
          a \in DOMAIN robot_parsers' /\ robot_parsers'[a] = robot_parsers[a]]_vars

\* C11, as stated: when the robots.txt fetch or parse of an authority failed
\* (read() raised, or the server answered with an error and nothing was
\* parsed), the authority is cached as unknown, the URL that is_valid asked
\* about and every later URL of the authority is allowed, and no second fetch
\* is made for the authority.
C11_FailedFetchAllows ==
  \A w \in Workers :
    (/\ pc[w] \in {"filter", "done"}
     /\ link[w] # NoUrl
     /\ Authority(link[w]) \in DOMAIN robot_parsers
     /\ ~robot_parsers[Authority(link[w])].last_checked) =>
      /\ robot_parsers[Authority(link[w])] = NoParser
      /\ link[w] \in kept[w]
      /\ FetchCount(Authority(link[w])) = 1

\* Canonical URLs the link pages are expected to yield
U_out == PFX_http \o <<"u","c","i",".","e","d","u","/","x">>
U_ftp == <<"f","t","p",":","/","/">> \o H_www_ics \o <<"/","f">>
U_xx == PFX_http \o H_www_ics \o <<"/","x","/","x">>
U_docs == PFX_http \o H_www_ics \o <<"/","d","o","c","s","/","d","o","c","s","/","f","i","l","e",".","h","t","m","l">>
U_cpdf == PFX_https \o H_www_cs \o <<"/","c",".","p","d","f">>
U_ok == PFX_http \o H_www_ics \o <<"/","o","k">>

\* URLs that fail the domain, the scheme, the repetition or the extension check
C12_FailEarly == {U_out, U_ftp, U_xx, U_docs, U_cpdf}

\* Of /ok and /b, what the site policy cached for the authority lets through
C12_Expected(rp) ==
  IF rp = NoParser THEN {U_ok, U_B}
  ELSE IF rp = Parser({<<"/","b">>}) THEN {U_ok}
  ELSE {}

C12_StateOk ==
  \A w \in Workers :
    /\ pc[w] \in {"robots", "robots_read", "robots_answer"} => link[w] \notin C12_FailEarly
    /\ (pc[w] = "done" /\ outcome[w] = "accepted" /\ cur[w].page = LP_scope) =>
         ret[w] = C12_Expected(robot_parsers[H_www_ics])

\* C12: a URL is accepted exactly when the domain, scheme, repetition and
\* extension checks and the site policy all pass, and for a URL that fails one
\* of the first four the robots cache is neither queried nor filled: no fetch
\* happens and robot_parsers is unchanged.
C12_ChecksInOrder ==
  /\ []C12_StateOk
  /\ [][\A w \in Workers :
          (pc[w] = "filter" /\ (todo[w] \ todo'[w]) \cap C12_FailEarly # {}) =>
            /\ robot_parsers' = robot_parsers
            /\ fetches' = fetches
            /\ kept'[w] = kept[w]
            /\ pc'[w] = "filter"]_vars

\* The page with one link per check has been filtered under a policy that
\* disallows /b: only /ok came back
C12_Witness ==
  \E w \in Workers :
    /\ pc[w] = "done" /\ outcome[w] = "accepted" /\ cur[w].page = LP_scope
    /\ robot_parsers[H_www_ics] = Parser({<<"/","b">>})
    /\ ret[w] = {U_ok}

\* C13: when stop_words.txt cannot be read, calc_content returns no decision,
\* the error leaves scraper(), and the call has changed neither the
\* near-duplicate index nor any statistic.
C13_StopWordsFatal ==
  \A w \in Workers :
    (pc[w] = "raised" /\ err[w] = "calc_content") =>
      /\ invalid_page[w] = "unset"
      /\ outcome[w] = "raised"
      /\ ret[w] = {}
      /\ Snapshot = pre[w]

\* The read of stop_words.txt failed on a call that came after pages had been
\* counted and indexed
C13_Witness ==
  \E w \in Workers :
    /\ pc[w] = "raised" /\ err[w] = "calc_content"
    /\ pre[w].info.unique_pages > 0
    /\ pre[w].index # {}

\* calc_content has returned for the page of the running call
C14_Decided(w) ==
  /\ pc[w] \notin {"idle", "precheck", "calc"}
  /\ outcome[w] # "precheck"
  /\ err[w] # "calc_content"

\* C14: calc_content rejects every page with fewer than 50 valid tokens, the
\* page with none included, and every page with at least 50 whose ratio of
\* distinct to total tokens is below 0.2; a page with at least 50 tokens and a
\* ratio of at least 0.2 is rejected only when the index held a fingerprint
\* within distance 3 when the call started.
C14_Thresholds ==
  \A w \in Workers :
    C14_Decided(w) =>
      /\ cur[w].page.ntok < 50 => invalid_page[w] = "True"
      /\ (cur[w].page.ntok >= 50 /\ 5 * cur[w].page.ndist < cur[w].page.ntok)
           => invalid_page[w] = "True"
      /\ (cur[w].page.ntok >= 50 /\ 5 * cur[w].page.ndist >= cur[w].page.ntok
             /\ invalid_page[w] = "True")
           => \E e \in pre[w].index : Hamming(e.value, cur[w].page.fp) <= 3

\* The page without a valid token has been rejected and counted, and the
\* call returned
C14_Witness ==
  \E w \in Workers :
    /\ pc[w] = "done" /\ outcome[w] = "rejected"
    /\ cur[w].page.ntok = 0
    /\ invalid_page[w] = "True"

\* The links extract_next_links returned for the page of the running call
\* that are still in hand
C15_Output(w) == todo[w] \cup kept[w] \cup ret[w]

\* C15, as stated: canonicalizing a URL that extract_next_links returned
\* yields the same URL.
C15_CanonicalIsFixedPoint ==
  \A w \in Workers :
    \A u \in C15_Output(w) : Canonical(cur[w].page.url, u) = u

\* The site policy cached for www.ics.uci.edu lets / and /page/3/ through
C16_Permissive ==
  /\ H_www_ics \in DOMAIN robot_parsers
  /\ robot_parsers[H_www_ics] \in {NoParser, Parser({<<"/","b">>})}

\* C16, as stated: the link HTTP://WWW.ICS.UCI.EDU/page/3/index.html on the
\* page http://www.ics.uci.edu/ canonicalizes to http://www.ics.uci.edu/, and
\* scraper() returns that URL when the robots policy is permissive.
C16_PaginationAndIndexCollapse ==
  \A w \in Workers :
    (/\ pc[w] = "done" /\ outcome[w] = "accepted"
     /\ cur[w].page = LP_trap
     /\ C16_Permissive) =>
      ret[w] = {U_A}

U_news == PFX_http \o H_www_ics \o <<"/","n","e","w","s","/">>

\* h is prefix \o "/page/" \o digits, the suffix starting at index i
C17_PaginatedAt(h, i) ==
  /\ Len(h) > i + 5
  /\ SubSeq(h, i, i + 5) = <<"/","p","a","g","e","/">>
  /\ \A j \in (i + 6)..Len(h) : h[j] \in Digits

\* g and h differ only in the digits of a trailing /page/<digits>
C17_Variants(g, h) ==
  \E i \in 1..Len(g) :
    /\ C17_PaginatedAt(g, i)
    /\ C17_PaginatedAt(h, i)
    /\ SubSeq(g, 1, i - 1) = SubSeq(h, 1, i - 1)

\* the page has several links, and they differ only in the pagination suffix
C17_PaginationOnly(page) ==
  /\ Cardinality(page.tags) > 1
  /\ \A t, u \in page.tags : t.text /\ C17_Variants(t.href, u.href)

\* The extracted links of the running call that are still in hand
C17_InHand(w) == todo[w] \cup kept[w] \cup (IF link[w] = NoUrl THEN {} ELSE {link[w]})

\* C17: for a page whose raw links differ only in a trailing /page/<digits>,
\* extract_next_links returns a single entry.
C17_PaginationVariantsMerge ==
  \A w \in Workers :
    (/\ pc[w] \in {"filter", "robots", "robots_read", "robots_answer"}
     /\ C17_PaginationOnly(cur[w].page)) =>
      Cardinality(C17_InHand(w)) = 1

\* extract_next_links has just returned for the page with /news/page/2,
\* /news/page/3 and /news/page/10
C17_Witness ==
  \E w \in Workers :
    /\ pc[w] = "filter"
    /\ C17_PaginationOnly(cur[w].page)
    /\ todo[w] = {U_news}

U_slashes == PFX_http \o H_www_ics \o <<"/","a","/","/","b","/","/","c">>

\* some non-empty segment occurs twice among segs
C18_Repeats(segs) ==
  \E i, j \in 1..Len(segs) : i < j /\ segs[i] = segs[j] /\ segs[i] # << >>

\* C18, as stated: is_valid rejects every URL whose path has a repeated
\* non-empty segment, and the repetition check does not reject a path in which
\* no non-empty segment repeats, such as /a//b//c, which scraper() returns
\* when the other checks and the site policy let it through.
C18_RepetitionCountsNonEmptySegments ==
  \A w \in Workers :
    /\ pc[w] \in {"robots", "robots_read", "robots_answer"}
         => ~C18_Repeats(Split(urlparse(link[w]).path))
    /\ (/\ pc[w] = "done" /\ outcome[w] = "accepted"
        /\ cur[w].page = LP_slash
        /\ robot_parsers = (H_www_ics :> NoParser))
         => (U_slashes \in ret[w] /\ U_docs \notin ret[w])

\* C19, as stated: robots policy entries are keyed by scheme and host: the
\* entry that answers for a URL was fetched, once, from the robots.txt of the
\* URL's own scheme and host.
C19_KeyedBySchemeAndHost ==
  \A w \in Workers :
    pc[w] = "robots_answer" =>
      /\ FetchKey(link[w]) \in DOMAIN fetches
      /\ fetches[FetchKey(link[w])] = 1

\* The positions of hist that hold an accepted page
C20_Accepted == { i \in 1..Len(hist) : hist[i].accepted }

\* position i holds the first accepted page with the largest token count
C20_FirstLongest(i) ==
  /\ \A j \in C20_Accepted : hist[j].page.ntok <= hist[i].page.ntok
  /\ \A j \in C20_Accepted : j < i => hist[j].page.ntok < hist[i].page.ntok

\* C20: in a run from the empty initial state with calls one at a time and no
\* persistence failure, after every call longest_page_count is the largest
\* valid-token count among the accepted pages (0 when there is none) and
\* longest_page_url is the first accepted page that reached it; the count is 0
\* or at least 50.
C20_LongestIsMaxOfAccepted ==
  (restarts = 0 /\ ~io_failed /\ \A w \in Workers : Quiescent(w)) =>
    /\ C20_Accepted = {} => scraper_info.longest_page_count = 0
    /\ \A i \in C20_Accepted :
         C20_FirstLongest(i) =>
           /\ scraper_info.longest_page_count = hist[i].page.ntok
           /\ scraper_info.longest_page_url = hist[i].page.url
    /\ (scraper_info.longest_page_count = 0 \/ scraper_info.longest_page_count >= 50)

\* Two pages of 60 tokens with different URLs were accepted one after the
\* other; the record names the first
C20_Witness ==
  /\ ~io_failed
  /\ \A w \in Workers : Quiescent(w)
  /\ Len(hist) = 2
  /\ hist[1].accepted /\ hist[2].accepted
  /\ hist[1].page.ntok = hist[2].page.ntok
  /\ hist[1].page.url # hist[2].page.url
  /\ scraper_info.longest_page_url = hist[1].page.url

====
